---- MODULE Spec2Model ----
(***************************************************************************)
(* Model of tools/line_replacer.c: a one-shot command that reads a text    *)
(* file into memory line by line (fgets into a fixed buffer, strdup into a *)
(* growing array), replaces one line and writes every line back.           *)
(*                                                                         *)
(* A byte is a one-character string; a file, a C string or a line is a     *)
(* sequence of bytes.  NUL stands for the byte 0: a file may hold it, a C  *)
(* string (a command-line operand, a strdup'ed line) ends before it.       *)
(*                                                                         *)
(* Environment assumptions: malloc, realloc, strdup, fputs and fclose      *)
(* succeed (the code checks none of them); only fopen may fail.  Line 32   *)
(* of the source reads "&amp;&amp;", which is "&&" with its ampersands     *)
(* HTML-escaped; it is modelled as the conjunction.                        *)
(***************************************************************************)
EXTENDS Integers, Sequences, FiniteSets, TLC

(***************************************************************************)
(* Bounds of the model.                                                    *)
(***************************************************************************)
\* Longest file, in bytes.
MaxFileLen == 4
\* Longest new_content operand, in bytes.
MaxContentLen == 2
\* Largest decimal line number passed on the command line (at most 9).
MaxLineNum == 3
\* Most bytes one fgets call stores before the terminating 0.  The source
\* has a buffer of 10000 bytes, so 9999; the model scales it down so that
\* lines longer than the buffer exist within MaxFileLen.
MaxChunk == 2
\* Initial capacity of the line array.  The source starts at 100 and
\* doubles; the model scales it down so that growth happens.
InitCapacity == 2
\* How many times the command is run in a row with the same arguments.
MaxRuns == 2
\* How many times another process rewrites the file during one run.
MaxExtWrites == 1

NL == "\n"
NUL == "NUL"

MAX_LINE_LENGTH == MaxChunk + 1

\* Bytes a file may hold, and bytes a command-line operand may hold.
FileBytes == {"a", NL, NUL}
ContentBytes == {"b", NL}
\* What another process may write to the file.
ExtContents == {<<>>, <<"c", NL>>}

SeqsUpTo(S, n) == UNION {[1..m -> S] : m \in 0..n}

Files == SeqsUpTo(FileBytes, MaxFileLen)
Contents == SeqsUpTo(ContentBytes, MaxContentLen)

Digits == {"0", "1", "2", "3", "4", "5", "6", "7", "8", "9"}
DigitVal == "0" :> 0 @@ "1" :> 1 @@ "2" :> 2 @@ "3" :> 3 @@ "4" :> 4 @@
            "5" :> 5 @@ "6" :> 6 @@ "7" :> 7 @@ "8" :> 8 @@ "9" :> 9
DigitOf(n) == CHOOSE c \in Digits : DigitVal[c] = n

\* The decimal numeral of n, for -9 <= n <= 9.
Numeral(n) == IF n < 0 THEN <<"-", DigitOf(-n)>> ELSE <<DigitOf(n)>>

\* <line_number> operands that are not decimal numerals.
NonNumerals == {<<>>, <<"x">>, <<"-">>, <<"2", "x">>, <<"1", " ", "2">>}
LineArgs == {Numeral(n) : n \in -1..MaxLineNum} \cup NonNumerals

\* Characters of a <line_number> operand.
ArgChars == Digits \cup {"-", "+", " ", "x"}

Paths == {"f", "g"}
ArgCounts == {3, 4, 5}
Min(x, y) == IF x < y THEN x ELSE y

(***************************************************************************)
(* Library routines, as the C library defines them.                        *)
(***************************************************************************)
\* Index of the first element of s at or after position p that satisfies
\* Test, or Len(s) + 1 when there is none.
RECURSIVE FirstFrom(_, _, _)
FirstFrom(s, p, T) ==
  IF p > Len(s) THEN Len(s) + 1
  ELSE IF s[p] \in T THEN p
  ELSE FirstFrom(s, p + 1, T)

\* fgets(buffer, size, file) with the file position at offset pos: the bytes
\* stored in buffer, at most size - 1 of them, ending after the first
\* newline; <<>> stands for the NULL it returns at end of file.
fgets(size, content, pos) ==
  LET rest == SubSeq(content, pos + 1, Len(content))
      nl == FirstFrom(rest, 1, {NL})
  IN SubSeq(rest, 1, Min(Min(nl, Len(rest)), size - 1))

\* strdup(buffer): the bytes before the first 0 byte.
strdup(buf) == SubSeq(buf, 1, FirstFrom(buf, 1, {NUL}) - 1)

\* atoi(s): skips white space, takes an optional sign, then converts the
\* longest run of digits (0 when there is none) and ignores what follows.
RECURSIVE DigitsValue(_, _, _)
DigitsValue(s, p, acc) ==
  IF p > Len(s) \/ s[p] \notin Digits THEN acc
  ELSE DigitsValue(s, p + 1, 10 * acc + DigitVal[s[p]])

\* Mutant: 1, the first line, when there is no digit to convert.
atoi_default_one(s) ==
  LET p == FirstFrom(s, 1, ArgChars \ {" "})
      neg == p <= Len(s) /\ s[p] = "-"
      q == IF p <= Len(s) /\ s[p] \in {"-", "+"} THEN p + 1 ELSE p
      v == IF q > Len(s) \/ s[q] \notin Digits THEN 1 ELSE DigitsValue(s, q, 0)
  IN IF neg THEN -v ELSE v

atoi(s) ==
  LET p == FirstFrom(s, 1, ArgChars \ {" "})
      neg == p <= Len(s) /\ s[p] = "-"
      q == IF p <= Len(s) /\ s[p] \in {"-", "+"} THEN p + 1 ELSE p
      v == DigitsValue(s, q, 0)
  IN IF neg THEN -v ELSE v

\* sprintf(line, "%s\n", new_content)
sprintf_line(content) == content \o <<NL>>

\* fopen(path, "r") succeeds.
fopen_r(d, m, path) == path \in DOMAIN d /\ m.readable

\* fopen(path, "w") succeeds.
fopen_w(d, m, path) == path \in DOMAIN d => m.writable

\* Mutant: the file is opened in append mode and keeps its content.
NotTruncated(d, path) == [p \in DOMAIN d \cup {path} |-> IF p \in DOMAIN d THEN d[p] ELSE <<>>]

\* The disk once fopen(path, "w") has truncated or created the file.
Truncated(d, path) == [p \in DOMAIN d \cup {path} |-> IF p = path THEN <<>> ELSE d[p]]

\* Mutant: the fclose call is missing.
fclose_missing(open) == open

\* fclose(handle): the handle is no longer open.
fclose(open) == FALSE

\* Mutant: the lower bound of the check is off by one.
InRangeFromZero(n, total) == n >= 0 /\ n <= total

\* The range check of line 32.
InRange(n, total) == n > 0 /\ n <= total

\* Mutant: slot line_num instead of slot line_num - 1.
ReplacedNext(ls, n, line) == [ls EXCEPT ![n + 1] = line]

\* Lines 33-35: slot line_num - 1 of the array (element n of the sequence)
\* is freed and set to the new line.
Replaced(ls, n, line) == [ls EXCEPT ![n] = line]

\* The capacity after the check of lines 22-25.
Grown(cap, n) == IF n >= cap THEN cap * 2 ELSE cap

\* The diagnostics of lines 10, 37, 44 and 60: the format string and the
\* values formatted into it.
UsageMsg(prog) ==
  [fmt |-> "Usage: %s <filename> <line_number> <new_content>\n", s |-> <<prog>>, d |-> <<>>]
OpenMsg(path) ==
  [fmt |-> "Error: Cannot open file %s\n", s |-> <<path>>, d |-> <<>>]
\* Mutant: the two numbers are passed in the wrong order.
RangeMsgSwapped(n, total) ==
  [fmt |-> "Error: Line number %d out of range (1-%d)\n", s |-> <<>>, d |-> <<total, n>>]
RangeMsg(n, total) ==
  [fmt |-> "Error: Line number %d out of range (1-%d)\n", s |-> <<>>, d |-> <<n, total>>]
WriteMsg(path) ==
  [fmt |-> "Error: Cannot write to file %s\n", s |-> <<path>>, d |-> <<>>]

ProgName == "line_replacer"

(***************************************************************************)
(* State.                                                                  *)
(***************************************************************************)
VARIABLES
  argv,       \* [argc, filename, line_arg, new_content]: the command line
  disk,       \* path -> content, for the paths that exist
  mode,       \* [readable, writable]: what this user may do with the file
  pc,         \* where the run is
  run,        \* which run this is
  line_num,   \* main: atoi(argv[2])
  lines,      \* replace_line: the line array
  num_lines,  \* replace_line: lines read
  capacity,   \* replace_line: allocated slots of the line array
  rfile,      \* replace_line: the read handle is open
  rpos,       \* offset of the read handle
  wfile,      \* replace_line: the write handle is open
  i,          \* replace_line: index of the write loop
  rc,         \* exit status, -1 while the run lasts
  stderr,     \* diagnostics of this run
  before,     \* history: the disk at the start of each run
  doc,        \* history: the line array at the end of the read phase
  ext         \* history: writes of another process during this run

vars == <<argv, disk, mode, pc, run, line_num, lines, num_lines, capacity,
          rfile, rpos, wfile, i, rc, stderr, before, doc, ext>>

locals == <<line_num, lines, num_lines, capacity, rfile, rpos, wfile, i>>

Init ==
  /\ argv \in [argc : ArgCounts, filename : Paths, line_arg : LineArgs,
               new_content : Contents]
  \* with a wrong operand count main reads no operand: one choice of
  \* operands stands for all of them
  /\ argv.argc # 4 => argv.line_arg = <<"1">> /\ argv.new_content = <<>>
  /\ disk \in {[p \in {"f"} |-> c] : c \in Files}
  /\ mode \in [readable : BOOLEAN, writable : BOOLEAN]
  /\ pc = "main"
  /\ run = 1
  /\ line_num = 0
  /\ lines = <<>>
  /\ num_lines = 0
  /\ capacity = 0
  /\ rfile = FALSE
  /\ rpos = 0
  /\ wfile = FALSE
  /\ i = 0
  /\ rc = -1
  /\ stderr = <<>>
  /\ before = <<disk>>
  /\ doc = <<>>
  /\ ext = 0

\* return code from main: the process exits.
Exit(code) == rc' = code /\ pc' = "done"

(***************************************************************************)
(* main, lines 58-68.                                                      *)
(***************************************************************************)
Main ==
  /\ pc = "main"
  /\ IF argv.argc # 4
     THEN /\ stderr' = Append(stderr, UsageMsg(ProgName))
          /\ Exit(1)
          /\ UNCHANGED line_num
     ELSE /\ line_num' = atoi(argv.line_arg)
          /\ pc' = "fopen_r"
          /\ UNCHANGED <<rc, stderr>>
  /\ UNCHANGED <<argv, disk, mode, run, lines, num_lines, capacity, rfile,
                 rpos, wfile, i, before, doc, ext>>

\* Mutant of OpenRead: the file is opened with "a+", which creates it.
OpenReadCreating ==
  /\ pc = "fopen_r"
  /\ IF argv.filename \in DOMAIN disk => mode.readable
     THEN /\ disk' = NotTruncated(disk, argv.filename)
          /\ rfile' = TRUE
          /\ rpos' = 0
          /\ lines' = <<>>
          /\ num_lines' = 0
          /\ capacity' = InitCapacity
          /\ pc' = "fgets"
          /\ UNCHANGED <<rc, stderr>>
     ELSE /\ stderr' = Append(stderr, OpenMsg(argv.filename))
          /\ Exit(1)
          /\ UNCHANGED <<disk, rfile, rpos, lines, num_lines, capacity>>
  /\ UNCHANGED <<argv, mode, run, line_num, wfile, i, before, doc, ext>>

(***************************************************************************)
(* replace_line, lines 8-18: open for reading, allocate the line array.    *)
(***************************************************************************)
OpenRead ==
  /\ pc = "fopen_r"
  /\ IF fopen_r(disk, mode, argv.filename)
     THEN /\ rfile' = TRUE
          /\ rpos' = 0
          /\ lines' = <<>>
          /\ num_lines' = 0
          /\ capacity' = InitCapacity
          /\ pc' = "fgets"
          /\ UNCHANGED <<rc, stderr>>
     ELSE /\ stderr' = Append(stderr, OpenMsg(argv.filename))
          /\ Exit(1)
          /\ UNCHANGED <<rfile, rpos, lines, num_lines, capacity>>
  /\ UNCHANGED <<argv, disk, mode, run, line_num, wfile, i, before, doc, ext>>

(***************************************************************************)
(* Lines 21-28: one iteration of the read loop.                            *)
(***************************************************************************)
ReadLine ==
  /\ pc = "fgets"
  /\ LET buffer == fgets(MAX_LINE_LENGTH, disk[argv.filename], rpos)
     IN /\ buffer # <<>>
        /\ capacity' = Grown(capacity, num_lines)
        /\ lines' = Append(lines, strdup(buffer))
        /\ num_lines' = num_lines + 1
        /\ rpos' = rpos + Len(buffer)
  /\ UNCHANGED <<argv, disk, mode, pc, run, line_num, rfile, wfile, i, rc,
                 stderr, before, doc, ext>>

(***************************************************************************)
(* Lines 21 and 29: fgets returns NULL, the read handle is closed.         *)
(***************************************************************************)
CloseRead ==
  /\ pc = "fgets"
  /\ fgets(MAX_LINE_LENGTH, disk[argv.filename], rpos) = <<>>
  /\ rfile' = fclose(rfile)
  /\ doc' = lines
  /\ pc' = "replace"
  /\ UNCHANGED <<argv, disk, mode, run, line_num, lines, num_lines, capacity,
                 rpos, wfile, i, rc, stderr, before, ext>>

(***************************************************************************)
(* Lines 32-39: the range check and the replacement.                       *)
(***************************************************************************)
ReplaceTarget ==
  /\ pc = "replace"
  /\ IF InRange(line_num, num_lines)
     THEN /\ lines' = Replaced(lines, line_num, sprintf_line(argv.new_content))
          /\ pc' = "fopen_w"
          /\ UNCHANGED <<rc, stderr>>
     ELSE /\ stderr' = Append(stderr, RangeMsg(line_num, num_lines))
          /\ Exit(1)
          /\ UNCHANGED lines
  /\ UNCHANGED <<argv, disk, mode, run, line_num, num_lines, capacity, rfile,
                 rpos, wfile, i, before, doc, ext>>

(***************************************************************************)
(* Lines 42-48: open for writing, which truncates the file.                *)
(***************************************************************************)
OpenWrite ==
  /\ pc = "fopen_w"
  /\ IF fopen_w(disk, mode, argv.filename)
     THEN /\ disk' = Truncated(disk, argv.filename)
          /\ wfile' = TRUE
          /\ i' = 0
          /\ pc' = "fputs"
          /\ UNCHANGED <<rc, stderr>>
     ELSE /\ stderr' = Append(stderr, WriteMsg(argv.filename))
          /\ Exit(1)
          /\ UNCHANGED <<disk, wfile, i>>
  /\ UNCHANGED <<argv, mode, run, line_num, lines, num_lines, capacity, rfile,
                 rpos, before, doc, ext>>

(***************************************************************************)
(* Lines 48-51: one iteration of the write loop.                           *)
(***************************************************************************)
WriteLine ==
  /\ pc = "fputs"
  /\ i < num_lines
  /\ disk' = [disk EXCEPT ![argv.filename] = @ \o lines[i + 1]]
  /\ i' = i + 1
  /\ UNCHANGED <<argv, mode, pc, run, line_num, lines, num_lines, capacity,
                 rfile, rpos, wfile, rc, stderr, before, doc, ext>>

(***************************************************************************)
(* Lines 48 and 52-55: the loop ends, the write handle is closed.          *)
(***************************************************************************)
CloseWrite ==
  /\ pc = "fputs"
  /\ ~(i < num_lines)
  /\ wfile' = fclose(wfile)
  /\ Exit(0)
  /\ UNCHANGED <<argv, disk, mode, run, line_num, lines, num_lines, capacity,
                 rfile, rpos, i, stderr, before, doc, ext>>

(***************************************************************************)
(* The command is run again with the same arguments.                       *)
(***************************************************************************)
Rerun ==
  /\ pc = "done"
  /\ run < MaxRuns
  /\ run' = run + 1
  /\ before' = Append(before, disk)
  /\ pc' = "main"
  /\ rc' = -1
  /\ stderr' = <<>>
  /\ line_num' = 0
  /\ lines' = <<>>
  /\ num_lines' = 0
  /\ capacity' = 0
  /\ rfile' = FALSE
  /\ rpos' = 0
  /\ wfile' = FALSE
  /\ i' = 0
  /\ doc' = <<>>
  /\ ext' = 0
  /\ UNCHANGED <<argv, disk, mode>>

(***************************************************************************)
(* Another process rewrites the file between the read phase and the write  *)
(* phase of this run.                                                      *)
(***************************************************************************)
ExternalWrite ==
  /\ pc \in {"replace", "fopen_w"}
  /\ ext < MaxExtWrites
  /\ \E c \in ExtContents :
       /\ c # disk[argv.filename]
       /\ disk' = [disk EXCEPT ![argv.filename] = c]
  /\ ext' = ext + 1
  /\ UNCHANGED <<argv, mode, pc, run, line_num, lines, num_lines, capacity,
                 rfile, rpos, wfile, i, rc, stderr, before, doc>>

Next ==
  \/ Main
  \/ OpenRead
  \/ ReadLine
  \/ CloseRead
  \/ ReplaceTarget
  \/ OpenWrite
  \/ WriteLine
  \/ CloseWrite

\* One run of the command.
Spec == Init /\ [][Next]_vars

\* Runs in succession with the same arguments.
NextTwice == Next \/ Rerun

SpecTwice == Init /\ [][NextTwice]_vars

\* One run, with another process writing to the file.
NextConc == Next \/ ExternalWrite

SpecConc == Init /\ [][NextConc]_vars


(***************************************************************************)
(* Vocabulary of the properties.                                           *)
(***************************************************************************)
Range(s) == {s[n] : n \in 1..Len(s)}

RECURSIVE Flatten(_)
Flatten(ls) == IF ls = <<>> THEN <<>> ELSE Head(ls) \o Flatten(Tail(ls))

\* The lines of a file as the glossary defines them: maximal runs of bytes,
\* each ending in a newline, the last one possibly lacking it.
RECURSIVE SplitLines(_)
SplitLines(content) ==
  IF content = <<>> THEN <<>>
  ELSE LET n == Min(FirstFrom(content, 1, {NL}), Len(content))
       IN <<SubSeq(content, 1, n)>> \o SplitLines(SubSeq(content, n + 1, Len(content)))

\* ls with its k-th element replaced by line.
WithLine(ls, k, line) == [n \in 1..Len(ls) |-> IF n = k THEN line ELSE ls[n]]

Done == pc = "done"
Called == argv.argc = 4
Exists == argv.filename \in DOMAIN before[run]
Readable == Exists /\ mode.readable
\* The file as it was when this run started.
Original == before[run][argv.filename]
NewLine == argv.new_content \o <<NL>>
\* A text file: no 0 byte.
PlainText(content) == NUL \notin Range(content)
LastMsg == stderr[Len(stderr)]

\* The operand is a decimal numeral: an optional sign, then digits only.
IsNumeral(s) ==
  LET q == IF s # <<>> /\ s[1] \in {"-", "+"} THEN 2 ELSE 1
  IN q <= Len(s) /\ \A n \in q..Len(s) : s[n] \in Digits

\* The operand starts, after white space and an optional sign, with a digit.
HasNumericPrefix(s) ==
  \E p \in 1..Len(s) :
    /\ s[p] \in Digits
    /\ \/ \A n \in 1..(p - 1) : s[n] = " "
       \/ /\ s[p - 1] \in {"-", "+"}
          /\ \A n \in 1..(p - 2) : s[n] = " "

(***************************************************************************)
(* C1: for a well-formed file of N lines and 1 <= k <= N, a successful     *)
(* call leaves the file as its lines 1..k-1, then new_content and one      *)
(* newline, then its lines k+1..N, the untouched lines byte for byte.  A    *)
(* well-formed file is taken to be a text file, one with no 0 byte.        *)
(***************************************************************************)
C1_ReplacesOnlyTarget ==
  (/\ Done /\ Called /\ Readable /\ rc = 0
   /\ PlainText(Original)
   /\ line_num \in 1..Len(SplitLines(Original)))
  => disk[argv.filename] = Flatten(WithLine(SplitLines(Original), line_num, NewLine))

(***************************************************************************)
(* C2: for a readable file of N lines and k < 1 or k > N, the call fails   *)
(* with a range error, never opens the file for writing and leaves it      *)
(* byte-identical.  N is the number of lines of the file.  Stated for text *)
(* files, where a 0 byte plays no part in the outcome.                     *)
(***************************************************************************)
C2_OutOfRangeLeavesFile ==
  (/\ Done /\ Called /\ Readable
   /\ PlainText(Original)
   /\ line_num \notin 1..Len(SplitLines(Original)))
  => /\ rc = 1
     /\ disk = before[run]
     /\ i = 0 /\ ~wfile

(***************************************************************************)
(* C9: after the read phase the line array is exactly the file's sequence  *)
(* of lines, in order, each with its terminator, for every line count and  *)
(* every line length.  Stated for text files, where a 0 byte plays no part *)
(* in the outcome.                                                         *)
(***************************************************************************)
C9_DocumentIsFileLines ==
  (pc = "replace" /\ PlainText(disk[argv.filename])) =>
    /\ lines = SplitLines(disk[argv.filename])
    /\ num_lines = Len(SplitLines(disk[argv.filename]))

(***************************************************************************)
(* C3: calling the command twice in succession with the same arguments     *)
(* leaves the file as the first call left it.                              *)
(***************************************************************************)
C3_Idempotent ==
  (Done /\ run = 2) => disk = before[2]

\* C3 as amended: the same, for a text file and a new_content that has no
\* newline in it and fits, with its terminator, in one fgets.
C3_IdempotentOneLine ==
  (/\ Done /\ run = 2
   /\ Exists => PlainText(before[1][argv.filename])
   /\ NL \notin Range(argv.new_content)
   /\ Len(NewLine) <= MAX_LINE_LENGTH - 1)
  => disk = before[2]

C3_Witness ==
  /\ Done /\ run = 2 /\ rc = 0
  /\ PlainText(before[1][argv.filename])
  /\ argv.new_content = <<"b">>
  /\ before[2] # before[1]
  /\ Len(lines) > 1

(***************************************************************************)
(* C4: when the file does not exist or cannot be opened for reading, the   *)
(* call fails with a file-open error whatever the line index and the new   *)
(* content, creates no file and changes nothing on disk.                   *)
(***************************************************************************)
C4_OpenFailureChangesNothing ==
  (Done /\ Called /\ ~Readable) =>
    /\ rc = 1
    /\ disk = before[run]
    /\ DOMAIN disk = DOMAIN before[run]
    /\ stderr = <<[fmt |-> "Error: Cannot open file %s\n", s |-> <<argv.filename>>, d |-> <<>>]>>
    /\ ~rfile /\ ~wfile

C4_Witness ==
  /\ Done /\ Called /\ ~Exists /\ rc = 1
  /\ argv.filename \notin DOMAIN disk
  /\ argv.line_arg = <<"1">> /\ argv.new_content = <<"b">>

C6_NonNumericIsRangeError ==
  (Done /\ Called /\ Readable /\ ~IsNumeral(argv.line_arg)) =>
    /\ rc = 1
    /\ disk = before[run]

\* C6 as amended: an operand with no digits after its white space and sign
\* parses to 0 and produces a range error; an operand that starts with
\* digits is parsed as those digits and range-checked like any number.
C6_NoDigitsIsRangeError ==
  /\ (Done /\ Called /\ Readable /\ ~HasNumericPrefix(argv.line_arg)) =>
       /\ line_num = 0
       /\ rc = 1
       /\ disk = before[run]
       /\ stderr # <<>> /\ LastMsg.d = <<0, num_lines>>
  /\ (Done /\ Called /\ argv.line_arg = <<"2", "x">>) => line_num = 2
  /\ (Done /\ Called /\ argv.line_arg = <<"1", " ", "2">>) => line_num = 1

C6_Witness ==
  /\ Done /\ Called /\ Readable /\ rc = 1
  /\ argv.line_arg = <<"x">>
  /\ num_lines > 0
  /\ mode.writable

(***************************************************************************)
(* C7: every failure writes a diagnostic that identifies the file, and the *)
(* diagnostic of a range error also states the attempted line number and   *)
(* the valid range 1..totalLines.                                          *)
(***************************************************************************)
C7_DiagnosticNamesFile ==
  (Done /\ rc = 1) =>
    /\ stderr # <<>>
    /\ argv.filename \in Range(LastMsg.s)
    /\ (Called /\ Readable /\ ~(1 <= line_num /\ line_num <= num_lines))
         => LastMsg.d = <<line_num, num_lines>>

\* C7 as amended: every failure writes one diagnostic; that of a file that
\* cannot be opened, for reading or for writing, names the file; that of a
\* range error states the attempted line number and the range 1..totalLines
\* and does not name the file; that of a usage error names the program.
C7_Diagnostics ==
  /\ (Done /\ rc = 0) => stderr = <<>>
  /\ (Done /\ rc = 1) =>
       /\ Len(stderr) = 1
       /\ IF ~Called THEN stderr[1].s = <<ProgName>> /\ stderr[1].d = <<>>
          ELSE IF ~Readable THEN stderr[1].s = <<argv.filename>> /\ stderr[1].d = <<>>
          ELSE IF ~(1 <= line_num /\ line_num <= num_lines)
            THEN /\ stderr[1].s = <<>>
                 /\ stderr[1].d = <<line_num, num_lines>>
                 /\ stderr[1].fmt = "Error: Line number %d out of range (1-%d)\n"
          ELSE stderr[1].s = <<argv.filename>> /\ stderr[1].d = <<>>

C7_Witness ==
  /\ Done /\ rc = 1 /\ Called /\ Readable
  /\ line_num = 3 /\ num_lines = 2
  /\ Len(stderr) = 1

(***************************************************************************)
(* C8: the read handle is released before the write handle is acquired,    *)
(* the write handle is released on every exit path after it was opened,    *)
(* and no handle is open when the operation returns.                       *)
(***************************************************************************)
C8_HandlesScoped ==
  /\ ~(rfile /\ wfile)
  /\ pc \in {"replace", "fopen_w", "fputs"} => ~rfile
  /\ wfile => pc = "fputs"
  /\ Done => ~rfile /\ ~wfile

C8_Witness ==
  /\ Done /\ rc = 0 /\ i > 0
  /\ ~rfile /\ ~wfile

(***************************************************************************)
(* C10: when another process writes to the path between the read phase and *)
(* the write phase, the run neither detects it nor fails because of it:    *)
(* the file ends as the content read earlier with the target line          *)
(* replaced, and the other process's changes are lost.                     *)
(***************************************************************************)
C10_LastWriterWins ==
  (Done /\ ext > 0) =>
    /\ rc = 0 <=> (1 <= line_num /\ line_num <= Len(doc) /\ mode.writable)
    /\ rc = 0 => disk[argv.filename] = Flatten(WithLine(doc, line_num, NewLine))
    /\ rc = 1 => /\ stderr # <<>>
                 /\ LastMsg.fmt \in {"Error: Line number %d out of range (1-%d)\n",
                                     "Error: Cannot write to file %s\n"}

C10_Witness ==
  /\ Done /\ ext > 0 /\ rc = 0
  /\ Len(doc) = 2
  /\ "c" \notin Range(disk[argv.filename])
  /\ "a" \in Range(disk[argv.filename])
====
